---- MODULE Spec2Model ----
(***************************************************************************)
(* Model of PrimeCPP_Threaded.cpp: the class prime_sieve (a byte per odd  *)
(* number, marked by Threads unsynchronised workers over the 6n-1 / 6n+1  *)
(* wheel) and the caller that builds a sieve, runs it and queries it.     *)
(*                                                                         *)
(* One step of a worker is one access to the shared vector Bits (or the   *)
(* purely local loop test), so every interleaving of the workers' reads   *)
(* and writes is a behaviour of the model.                                *)
(***************************************************************************)
EXTENDS Integers, Sequences, FiniteSets

\* ---------------------------------------------------------------- bounds
\* Limits explored by Spec: every limit 1..MaxLimit.
MaxLimit == 50

\* Worker counts explored by Spec: every count 1..MaxThreads.
MaxThreads == 4

\* Worker counts explored by FairSpec: every count 1..MaxLiveThreads (with
\* every limit 1..MaxLimit).
MaxLiveThreads == 3

\* The limits and the worker counts that TableSpec explores: three keys of
\* the known-counts table and 11, which is no key.
TableLimits == {10, 11, 100, 1000}
TableCounts == {1, 2}

\* MainSpec: the command lines are all sequences of at most MaxArgs tokens of
\* Tokens (and the longer ones of ExtraArgs), thread::hardware_concurrency()
\* returns any of 0..MaxHW, and the benchmark loop makes at most MaxPasses
\* passes.  MainSpec builds a sieve only for a limit up to MaxLimit and a
\* worker count up to MaxThreads.
MaxArgs == 3
MaxHW == 2
MaxPasses == 2

\* The worker counts and the limits that WideSpec explores.
WideCounts == {1, 2, 4, 8}
WideLimits == {10, 26, 46, 50}

\* ------------------------------------------------------------- variables
VARIABLES
    llUpperLimit,   \* main: the limit every sieve of this execution is built with
    workerCounts,   \* the worker counts the caller may build a sieve with
    mpc,            \* the caller's position: "new", "spawn", "join", "returned",
                    \*   "checked", "crashed"
    Size,           \* prime_sieve::Size
    Threads,        \* prime_sieve::Threads
    Bits,           \* prime_sieve::Bits, a function 0..(number of cells - 1) -> {0,1}
    oob,            \* TRUE once an access outside Bits has happened
    threadPool,     \* runSieve(): the threads started so far, each with its locals
    joined,         \* runSieve(): how many threads of threadPool have been joined
    result,         \* main: validateResults() ? countPrimes() : 0  (-1: not computed)
    query,          \* the last isPrime(n) call and its answer
    prev            \* the previous finished run of this execution (worker count,
                    \*   final Bits, countPrimes), or NoRun

\* main(): the state of the program around the sieves.
VARIABLES
    stage,          \* "harness": sieves are built by a free caller (no main);
                    \*   "bench": main's do-while loop; "check": checkSieve
    args,           \* argv[1..]: the command line, a sequence of tokens
    hw,             \* what thread::hardware_concurrency() returns
    cThreads,       \* main: cThreads
    bOneshot,       \* main: bOneshot
    bQuiet,         \* main: bQuiet
    cPasses,        \* the global pass counter
    printCount      \* printResults(): the count of its own loop (-1: not run)

mainVars == <<stage, args, hw, cThreads, bOneshot, bQuiet, cPasses, printCount>>

vars == <<llUpperLimit, workerCounts, mpc, Size, Threads, Bits, oob, threadPool,
          joined, result, query, prev, mainVars>>

NoRun == [t |-> 0, bits |-> << >>, count |-> 0]
NoQuery == [n |-> -1, ans |-> FALSE]

\* --------------------------------------------------- arithmetic helpers
\* x >> 1 for a non-negative x.
Shr1(x) == x \div 2

\* (int) sqrt(Size): the double square root truncated to an integer.
ISqrt(n) == CHOOSE r \in 0..n : r * r <= n /\ (r + 1) * (r + 1) > n

\* ------------------------------------------------------- the constructor
\* Bits(n >> 1, 1): the number of cells allocated.
NumCells(n) == Shr1(n)

\* Bits(n >> 1, 1): every cell starts as 1.
FreshBits(n) == [c \in 0..(NumCells(n) - 1) |-> 1]

\* Sensitivity variant of StoreZero: the store is a read-modify-write of a
\* unit wider than a cell, which puts the initial 1 back into the next cell.
StoreZeroTorn(bits, c) ==
    IF c \in DOMAIN bits
      THEN [d \in DOMAIN bits |->
              IF d = c THEN 0 ELSE IF d = c + 1 THEN 1 ELSE bits[d]]
      ELSE bits

\* Bits[c] = 0: a store of one byte.  A store outside the vector is undefined
\* behaviour; when the process survives it, no cell of the vector changes.
StoreZero(bits, c) == IF c \in DOMAIN bits THEN [bits EXCEPT ![c] = 0] ELSE bits

\* Sensitivity variant of CountedCells: the loop starts at cell 0.
CountedCellsFromZero(bits) == DOMAIN bits

\* ------------------------------------------------------------ the queries
\* The set of cells countPrimes() looks at: for (i = 1; i < Bits.size(); ++i).
CountedCells(bits) == {c \in DOMAIN bits : c >= 1}

\* countPrimes(): (Size >= 2) plus the number of non-zero cells it looks at.
countPrimes(bits, size) ==
    (IF size >= 2 THEN 1 ELSE 0)
        + Cardinality({c \in CountedCells(bits) : bits[c] # 0})

\* isPrime(n): Bits[n >> 1] for an odd n, false for an even n.  (A read
\* outside the vector is undefined; the callers of the model stay inside.)
isPrime(bits, n) ==
    IF n % 2 = 1
      THEN (Shr1(n) \in DOMAIN bits /\ bits[Shr1(n)] # 0)
      ELSE FALSE

\* validateResults(): the table of historical prime counts.  Its last entry,
\* 10'000'000'000 -> 455052511, is left out: the key does not fit the model
\* checker's integers, and no limit of the model comes near it.
resultsDictionary ==
    [k \in {10, 100, 1000, 10000, 100000, 1000000, 10000000, 100000000,
            1000000000} |->
        CASE k = 10          -> 4
          [] k = 100         -> 25
          [] k = 1000        -> 168
          [] k = 10000       -> 1229
          [] k = 100000      -> 9592
          [] k = 1000000     -> 78498
          [] k = 10000000    -> 664579
          [] k = 100000000   -> 5761455
          [] k = 1000000000  -> 50847534]

\* Sensitivity variant of validateResults: a limit that is no key is
\* accepted instead of rejected.
validateResultsLenient(bits, size) ==
    IF size \notin DOMAIN resultsDictionary
      THEN TRUE
      ELSE resultsDictionary[size] = countPrimes(bits, size)

\* validateResults(): false for a limit that is no key, else the comparison.
validateResults(bits, size) ==
    IF size \notin DOMAIN resultsDictionary
      THEN FALSE
      ELSE resultsDictionary[size] = countPrimes(bits, size)

\* Sensitivity variant of SpawnIndex: every thread is started with index 0.
SpawnIndexShared(i) == 0

\* The index the lambda of runSieve() hands to the thread it starts as the
\* i-th (captured by value).
SpawnIndex(i) == i

\* Sensitivity variant of FactorOf: the candidate factor of an index is taken
\* to be 6 * index + 1.
FactorOfPlus(index) == 6 * index + 1

\* int64_t factor = 6 * index - 1.
FactorOf(index) == 6 * index - 1

\* The locals of a thread that has just been started with `index`.
NewThread(index) ==
    [pc |-> "while", start |-> index, index |-> index,
     factor |-> FactorOf(index), num |-> 0]

\* Sensitivity variant of LoopCondition: the loop bound taken strictly, so
\* that the factor equal to q is never used.
LoopConditionStrict(factor, size) == factor < ISqrt(size)

\* while (factor <= q), with q = (int) sqrt(Size).
LoopCondition(factor, size) == factor <= ISqrt(size)

\* Sensitivity variant of FirstMultiple: marking starts at the factor itself.
FirstMultipleSelf(factor) == factor

\* Sensitivity variant of FirstMultiple: marking starts at 3 * factor.
FirstMultipleTriple(factor) == 3 * factor

\* The first number a factor strikes: num = factor * factor.
FirstMultiple(factor) == factor * factor

\* Sensitivity variant of Stride: the step between two struck numbers is
\* one factor too long.
StrideThree(factor) == 3 * factor

\* The distance between two numbers a factor strikes: num += 2 * factor.
Stride(factor) == 2 * factor

\* The values the unsynchronised read `1 == Bits[c]` can deliver: the cell's
\* current value, or (the read races with the other workers' stores, which
\* nothing orders before it) the 1 the cell held when the threads started.
\* Cell 0 is never read by a worker; a read outside the vector is undefined.
ReadValues(bits, c) ==
    IF c \in DOMAIN bits
      THEN (IF c >= 1 THEN {bits[c], 1} ELSE {bits[c]})
      ELSE {0, 1}

\* Sensitivity variant of Advance: the index moves on by twice the worker
\* count, so every other round of the worker is skipped.
AdvanceTwice(th, threads) ==
    [th EXCEPT !.pc = "while", !.index = th.index + 2 * threads,
               !.factor = FactorOf(th.index + 2 * threads), !.num = 0]

\* Sensitivity variant of Advance: the index is not moved on.
AdvanceStuck(th, threads) == [th EXCEPT !.pc = "while", !.num = 0]

\* index += Threads; factor = 6 * index - 1; back to the loop test.
Advance(th, threads) ==
    [th EXCEPT !.pc = "while", !.index = th.index + threads,
               !.factor = FactorOf(th.index + threads), !.num = 0]

\* Sensitivity variant of JoinReady: join() does not wait for the thread.
JoinReadyAlways(th) == TRUE

\* th.join() returns once the thread has left runSieve(int64_t).
JoinReady(th) == th.pc = "done"

\* ------------------------------------------------------------------ Init
\* main() before the first sieve is built: the limit is fixed, no sieve yet.
InitWith(limits, counts) ==
    /\ llUpperLimit \in limits
    /\ workerCounts = counts
    /\ mpc = "new"
    /\ Size = 0
    /\ Threads = 0
    /\ Bits = << >>
    /\ oob = FALSE
    /\ threadPool = << >>
    /\ joined = 0
    /\ result = -1
    /\ query = NoQuery
    /\ prev = NoRun
    /\ stage = "harness"
    /\ args = << >>
    /\ hw = 0
    /\ cThreads = 0
    /\ bOneshot = FALSE
    /\ bQuiet = FALSE
    /\ cPasses = 0
    /\ printCount = -1

Init == InitWith(1..MaxLimit, 1..MaxThreads)

InitTable == InitWith(TableLimits, TableCounts)

InitWide == InitWith(WideLimits, WideCounts)

InitLive == InitWith(1..MaxLimit, 1..MaxLiveThreads)

\* ------------------------------------------------------------ the caller
\* prime_sieve(n, t): Bits(n >> 1, 1), Size(n), Threads(t), then Bits[0] = 0.
\* With n = 1 the vector is empty and the store to Bits[0] is outside it:
\* the process either dies there or goes on with the vector untouched.
\* The sieve that is replaced, if it had finished, is remembered in prev.
Construct(t) ==
    /\ mpc \in {"new", "returned", "checked"}
    /\ Size' = llUpperLimit
    /\ Threads' = t
    /\ Bits' = StoreZero(FreshBits(llUpperLimit), 0)
    /\ oob' = (0 \notin DOMAIN FreshBits(llUpperLimit))
    /\ IF 0 \in DOMAIN FreshBits(llUpperLimit)
         THEN mpc' = "spawn"
         ELSE mpc' \in {"spawn", "crashed"}
    /\ threadPool' = << >>
    /\ joined' = 0
    /\ result' = -1
    /\ query' = NoQuery
    /\ prev' = IF mpc = "new"
                 THEN prev
                 ELSE [t |-> Threads, bits |-> Bits,
                       count |-> countPrimes(Bits, Size)]
    /\ UNCHANGED <<llUpperLimit, workerCounts>>
    /\ UNCHANGED mainVars

\* runSieve(): for (i = 0; i < Threads; i++) threadPool.push_back(thread(...)).
Spawn ==
    /\ mpc = "spawn"
    /\ Len(threadPool) < Threads
    /\ threadPool' = Append(threadPool, NewThread(SpawnIndex(Len(threadPool))))
    /\ UNCHANGED <<llUpperLimit, workerCounts, mpc, Size, Threads, Bits, oob,
                   joined, result, query, prev>>
    /\ UNCHANGED mainVars

\* runSieve(): the spawning loop ends, the joining loop begins.
SpawnExit ==
    /\ mpc = "spawn"
    /\ ~(Len(threadPool) < Threads)
    /\ mpc' = "join"
    /\ joined' = 0
    /\ UNCHANGED <<llUpperLimit, workerCounts, Size, Threads, Bits, oob,
                   threadPool, result, query, prev>>
    /\ UNCHANGED mainVars

\* runSieve(): for (auto &th : threadPool) th.join(), one thread at a time,
\* in the order they were started.
Join ==
    /\ mpc = "join"
    /\ joined < Len(threadPool)
    /\ JoinReady(threadPool[joined + 1])
    /\ joined' = joined + 1
    /\ UNCHANGED <<llUpperLimit, workerCounts, mpc, Size, Threads, Bits, oob,
                   threadPool, result, query, prev>>
    /\ UNCHANGED mainVars

\* runSieve() returns after the last join.
Return ==
    /\ mpc = "join"
    /\ joined = Len(threadPool)
    /\ mpc' = "returned"
    /\ UNCHANGED <<llUpperLimit, workerCounts, Size, Threads, Bits, oob,
                   threadPool, joined, result, query, prev>>
    /\ UNCHANGED mainVars

\* main: result = checkSieve.validateResults() ? checkSieve.countPrimes() : 0.
Validate ==
    /\ mpc = "returned"
    /\ result' = IF validateResults(Bits, Size)
                   THEN countPrimes(Bits, Size)
                   ELSE 0
    /\ mpc' = "checked"
    /\ UNCHANGED <<llUpperLimit, workerCounts, Size, Threads, Bits, oob,
                   threadPool, joined, query, prev>>
    /\ UNCHANGED mainVars

\* A call isPrime(n) on the finished sieve, for an n below the limit.  The
\* method is const and its only effect is its answer, so the caller of the
\* model asks once per sieve, for any n.
IsPrime ==
    /\ mpc = "checked"
    /\ query = NoQuery
    /\ \E n \in 0..(Size - 1) : query' = [n |-> n, ans |-> isPrime(Bits, n)]
    /\ UNCHANGED <<llUpperLimit, workerCounts, mpc, Size, Threads, Bits, oob,
                   threadPool, joined, result, prev>>
    /\ UNCHANGED mainVars

\* ------------------------------------------------- runSieve(int64_t index)
\* What a worker step leaves alone.
WorkerFrame ==
    UNCHANGED <<llUpperLimit, workerCounts, mpc, Size, Threads, oob, joined,
                result, query, prev, mainVars>>

\* while (factor <= q): leave the loop, or enter the branch for this index.
WhileTest(w) ==
    LET th == threadPool[w] IN
    /\ th.pc = "while"
    /\ threadPool' = [threadPool EXCEPT ![w] =
          IF ~LoopCondition(th.factor, Size)
            THEN [th EXCEPT !.pc = "done"]
            ELSE IF th.index = 0
              THEN [th EXCEPT !.pc = "mark3", !.num = 9]
              ELSE [th EXCEPT !.pc = "readA"]]
    /\ UNCHANGED Bits
    /\ WorkerFrame

\* index 0: for (num = 9; num < Size; num += 6) Bits[num >> 1] = 0; then
\* index += Threads; factor = 6 * index - 1.
Mark3(w) ==
    LET th == threadPool[w] IN
    /\ th.pc = "mark3"
    /\ IF th.num < Size
         THEN /\ Bits' = StoreZero(Bits, Shr1(th.num))
              /\ threadPool' = [threadPool EXCEPT ![w].num = th.num + 6]
         ELSE /\ UNCHANGED Bits
              /\ threadPool' = [threadPool EXCEPT ![w] = Advance(th, Threads)]
    /\ WorkerFrame

\* if (1 == Bits[factor >> 1]): the read for the factor 6*index - 1.
ReadA(w) ==
    LET th == threadPool[w] IN
    /\ th.pc = "readA"
    /\ \E v \in ReadValues(Bits, Shr1(th.factor)) :
          threadPool' = [threadPool EXCEPT ![w] =
             IF v = 1
               THEN [th EXCEPT !.pc = "markA", !.num = FirstMultiple(th.factor)]
               ELSE [th EXCEPT !.pc = "readB", !.factor = th.factor + 2]]
    /\ UNCHANGED Bits
    /\ WorkerFrame

\* for (num = factor * factor; num < Size; num += 2 * factor)
\* Bits[num >> 1] = 0; then factor += 2.
MarkA(w) ==
    LET th == threadPool[w] IN
    /\ th.pc = "markA"
    /\ IF th.num < Size
         THEN /\ Bits' = StoreZero(Bits, Shr1(th.num))
              /\ threadPool' =
                    [threadPool EXCEPT ![w].num = th.num + Stride(th.factor)]
         ELSE /\ UNCHANGED Bits
              /\ threadPool' = [threadPool EXCEPT ![w] =
                    [th EXCEPT !.pc = "readB", !.factor = th.factor + 2]]
    /\ WorkerFrame

\* if (1 == Bits[factor >> 1]): the read for the factor 6*index + 1.
ReadB(w) ==
    LET th == threadPool[w] IN
    /\ th.pc = "readB"
    /\ \E v \in ReadValues(Bits, Shr1(th.factor)) :
          threadPool' = [threadPool EXCEPT ![w] =
             IF v = 1
               THEN [th EXCEPT !.pc = "markB", !.num = FirstMultiple(th.factor)]
               ELSE Advance(th, Threads)]
    /\ UNCHANGED Bits
    /\ WorkerFrame

\* The second marking loop; then index += Threads; factor = 6 * index - 1.
MarkB(w) ==
    LET th == threadPool[w] IN
    /\ th.pc = "markB"
    /\ IF th.num < Size
         THEN /\ Bits' = StoreZero(Bits, Shr1(th.num))
              /\ threadPool' =
                    [threadPool EXCEPT ![w].num = th.num + Stride(th.factor)]
         ELSE /\ UNCHANGED Bits
              /\ threadPool' = [threadPool EXCEPT ![w] = Advance(th, Threads)]
    /\ WorkerFrame

\* One step of one started thread.
WorkerStep(w) ==
    \/ WhileTest(w)
    \/ Mark3(w)
    \/ ReadA(w)
    \/ MarkA(w)
    \/ ReadB(w)
    \/ MarkB(w)

\* --------------------------------------------------------- specification
Next ==
    \/ \E t \in workerCounts : Construct(t)
    \/ Spawn
    \/ SpawnExit
    \/ Join
    \/ Return
    \/ Validate
    \/ IsPrime
    \/ \E w \in 1..Len(threadPool) : WorkerStep(w)

Spec == Init /\ [][Next]_vars

TableSpec == InitTable /\ [][Next]_vars

WideSpec == InitWide /\ [][Next]_vars

\* ------------------------------------------------------------------ main()
\* const uint64_t DEFAULT_UPPER_LIMIT.
DEFAULT_UPPER_LIMIT == 10000000

\* The tokens the command lines of MainSpec are made of.
Tokens == {"-h", "-t", "-s", "-l", "-1", "-p", "-q", "0", "2", "10", "30"}

\* Command lines of more than MaxArgs tokens that MainSpec explores too.
ExtraArgs ==
    {<<"-t", "2", "-l", "10">>, <<"-l", "10", "-t", "0">>,
     <<"-1", "-p", "-l", "10">>, <<"-q", "-l", "10", "-t", "2">>,
     <<"-l", "0", "-t", "-1">>, <<"-t", "2", "-l", "30">>}

ArgLines == (UNION {[1..n -> Tokens] : n \in 0..MaxArgs}) \cup ExtraArgs

\* atoi / atoll of a token: the leading number, 0 when there is none.
Atoi(tok) ==
    CASE tok = "0"  -> 0
      [] tok = "2"  -> 2
      [] tok = "10" -> 10
      [] tok = "30" -> 30
      [] tok = "-1" -> -1
      [] OTHER      -> 0

\* max(1, v).
Clamp(v) == IF v < 1 THEN 1 ELSE v

\* main's locals before the first argument is looked at.
ParseStart ==
    [t |-> 0, s |-> 0, l |-> 0, one |-> FALSE, print |-> FALSE,
     quiet |-> FALSE, out |-> "ok"]

\* The argument loop of main from position i on.  out is "ok" when the loop
\* ends at args.end(), "return" when main returns from inside the loop (-h, an
\* unknown argument), and "ub" when the iterator is moved past args.end():
\* -t, -s, -l and -1 advance it inside the body, and when they are the last
\* token the loop's own ++i then moves it beyond the end.
RECURSIVE ParseFrom(_, _, _)
ParseFrom(a, i, st) ==
    IF i > Len(a) THEN st
    ELSE IF a[i] = "-h" THEN [st EXCEPT !.out = "return"]
    ELSE IF a[i] = "-t" THEN
        IF i + 1 > Len(a)
          THEN [st EXCEPT !.t = 0, !.out = "ub"]
          ELSE ParseFrom(a, i + 2, [st EXCEPT !.t = Clamp(Atoi(a[i + 1]))])
    ELSE IF a[i] = "-s" THEN
        IF i + 1 > Len(a)
          THEN [st EXCEPT !.s = 0, !.out = "ub"]
          ELSE ParseFrom(a, i + 2, [st EXCEPT !.s = Clamp(Atoi(a[i + 1]))])
    ELSE IF a[i] = "-l" THEN
        IF i + 1 > Len(a)
          THEN [st EXCEPT !.l = 0, !.out = "ub"]
          ELSE ParseFrom(a, i + 2, [st EXCEPT !.l = Clamp(Atoi(a[i + 1]))])
    ELSE IF a[i] = "-1" THEN
        IF i + 1 > Len(a)
          THEN [st EXCEPT !.one = TRUE, !.t = 1, !.out = "ub"]
          ELSE ParseFrom(a, i + 2, [st EXCEPT !.one = TRUE, !.t = 1])
    ELSE IF a[i] = "-p" THEN ParseFrom(a, i + 1, [st EXCEPT !.print = TRUE])
    ELSE IF a[i] = "-q" THEN ParseFrom(a, i + 1, [st EXCEPT !.quiet = TRUE])
    ELSE [st EXCEPT !.out = "return"]

\* bOneshot && (cSecondsRequested > 0 || cThreadsRequested > 1).
OneshotConflict(p) == p.one /\ (p.s > 0 \/ p.t > 1)

\* cThreads = cThreadsRequested ? cThreadsRequested : hardware_concurrency().
ThreadsFor(requested, hardware) == IF requested # 0 THEN requested ELSE hardware

\* llUpperLimit = ullLimitRequested ? ullLimitRequested : DEFAULT_UPPER_LIMIT.
LimitFor(requested) == IF requested # 0 THEN requested ELSE DEFAULT_UPPER_LIMIT

\* The worker count main builds its sieves with: bOneshot ? 1 : cThreads.
SieveThreads == IF bOneshot THEN 1 ELSE cThreads

\* main() at its first statement, for any command line and any answer of
\* thread::hardware_concurrency().
InitMain ==
    /\ args \in ArgLines
    /\ hw \in 0..MaxHW
    /\ stage = "bench"
    /\ mpc = "args"
    /\ llUpperLimit = 0
    /\ workerCounts = {}
    /\ Size = 0
    /\ Threads = 0
    /\ Bits = << >>
    /\ oob = FALSE
    /\ threadPool = << >>
    /\ joined = 0
    /\ result = -1
    /\ query = NoQuery
    /\ prev = NoRun
    /\ cThreads = 0
    /\ bOneshot = FALSE
    /\ bQuiet = FALSE
    /\ cPasses = 0
    /\ printCount = -1

\* What main's own steps leave alone of the sieve.
SieveFrame ==
    UNCHANGED <<workerCounts, Size, Threads, Bits, threadPool, joined, result,
                query, prev, args, hw>>

\* main, up to the line before the do-while loop: the argument loop, the
\* oneshot check and the defaults.
ParseArgs ==
    /\ mpc = "args"
    /\ LET p == ParseFrom(args, 1, ParseStart) IN
         IF p.out = "ub"
           THEN /\ mpc' \in {"crashed", "exit"}
                /\ UNCHANGED <<llUpperLimit, cThreads, bOneshot, bQuiet>>
         ELSE IF p.out = "return" \/ OneshotConflict(p)
           THEN /\ mpc' = "exit"
                /\ UNCHANGED <<llUpperLimit, cThreads, bOneshot, bQuiet>>
         ELSE /\ mpc' = "new"
              /\ llUpperLimit' = LimitFor(p.l)
              /\ cThreads' = ThreadsFor(p.t, hw)
              /\ bOneshot' = p.one
              /\ bQuiet' = p.quiet
    /\ UNCHANGED <<stage, cPasses, printCount, oob>>
    /\ SieveFrame

\* new prime_sieve(llUpperLimit, bOneshot ? 1 : cThreads) in the loop, and
\* prime_sieve checkSieve(llUpperLimit, bOneshot ? 1 : cThreads) after it.
\* (The model builds the sieve only when it is small enough to explore.)
MainConstruct ==
    /\ stage \in {"bench", "check"}
    /\ mpc = "new"
    /\ llUpperLimit <= MaxLimit
    /\ SieveThreads <= MaxThreads
    /\ Construct(SieveThreads)

\* cPasses++, after runSieve() of the loop's sieve has returned.
PassDone ==
    /\ stage = "bench"
    /\ mpc = "returned"
    /\ cPasses' = cPasses + 1
    /\ mpc' = "loop"
    /\ UNCHANGED <<llUpperLimit, stage, cThreads, bOneshot, bQuiet, printCount,
                   oob>>
    /\ SieveFrame

\* while (!bOneshot && elapsed < cSeconds): time is left, one more pass.
LoopAgain ==
    /\ mpc = "loop"
    /\ ~bOneshot
    /\ cPasses < MaxPasses
    /\ mpc' = "new"
    /\ UNCHANGED <<llUpperLimit, stage, cThreads, bOneshot, bQuiet, cPasses,
                   printCount, oob>>
    /\ SieveFrame

\* The loop ends (oneshot, or the time is up); checkSieve is next.
LoopExit ==
    /\ mpc = "loop"
    /\ stage' = "check"
    /\ mpc' = "new"
    /\ UNCHANGED <<llUpperLimit, cThreads, bOneshot, bQuiet, cPasses,
                   printCount, oob>>
    /\ SieveFrame

\* auto result = checkSieve.validateResults() ? checkSieve.countPrimes() : 0.
MainValidate ==
    /\ stage = "check"
    /\ Validate

\* printResults(): the cells its loop reads,
\* for (num = 1; num <= Bits.size(); ++num) if (Bits[num]).
PrintReadCells(bits) == 1..Cardinality(DOMAIN bits)

\* printResults(): the count of its loop, where `past` is the byte found
\* behind the vector when the loop reads there.
PrintLoopCount(bits, size, past) ==
    (IF size >= 2 THEN 1 ELSE 0)
        + Cardinality({num \in PrintReadCells(bits) :
              (IF num \in DOMAIN bits THEN bits[num] ELSE past) # 0})

\* if (!bQuiet) checkSieve.printResults(...).  A read behind the vector is
\* undefined: it delivers a zero or a non-zero byte.
PrintResults ==
    /\ stage = "check"
    /\ mpc = "checked"
    /\ ~bQuiet
    /\ \E past \in {0, 1} : printCount' = PrintLoopCount(Bits, Size, past)
    /\ oob' = (oob \/ ~(PrintReadCells(Bits) \subseteq DOMAIN Bits))
    /\ mpc' = "printed"
    /\ UNCHANGED <<llUpperLimit, stage, cThreads, bOneshot, bQuiet, cPasses>>
    /\ SieveFrame

\* else cout << cPasses << ", " << duration / cPasses.
PrintQuiet ==
    /\ stage = "check"
    /\ mpc = "checked"
    /\ bQuiet
    /\ mpc' = "printed"
    /\ UNCHANGED <<llUpperLimit, stage, cThreads, bOneshot, bQuiet, cPasses,
                   printCount, oob>>
    /\ SieveFrame

MainNext ==
    \/ ParseArgs
    \/ MainConstruct
    \/ Spawn
    \/ SpawnExit
    \/ Join
    \/ Return
    \/ PassDone
    \/ LoopAgain
    \/ LoopExit
    \/ MainValidate
    \/ PrintResults
    \/ PrintQuiet
    \/ \E w \in 1..Len(threadPool) : WorkerStep(w)

MainSpec == InitMain /\ [][MainNext]_vars

\* Fairness: the operating system schedules every started thread again and
\* again, and the caller inside runSieve() goes on whenever it can.  Building
\* a further sieve is the caller's choice and is not forced.
Fairness ==
    /\ WF_vars(Spawn)
    /\ WF_vars(SpawnExit)
    /\ WF_vars(Join)
    /\ WF_vars(Return)
    /\ \A w \in 1..MaxLiveThreads :
          WF_vars(w <= Len(threadPool) /\ WorkerStep(w))

FairSpec == InitLive /\ [][Next]_vars /\ Fairness

\* ------------------------------------------------- vocabulary of the claims
\* n is prime, by trial division.
TrialDivision(n) == n >= 2 /\ \A d \in 2..(n - 1) : n % d # 0

\* runSieve() has returned to the caller.
Finished == mpc \in {"returned", "checked"}

\* Every thread of the pool has left runSieve(int64_t).
AllDone == \A w \in 1..Len(threadPool) : threadPool[w].pc = "done"

\* The numbers the finished sieve reports as prime: 2 when countPrimes()
\* counts it, and 2c+1 for every cell c that countPrimes() counts.
PrimesFound ==
    (IF Size >= 2 THEN {2} ELSE {})
        \cup {2 * c + 1 : c \in {d \in CountedCells(Bits) : Bits[d] # 0}}

\* ceil(n / 2).
CeilHalf(n) == (n + 1) \div 2

\* ------------------------------------------------------------------ claims
\* C1: after runSieve() returns, for every limit, worker count and
\* interleaving of the workers, every i with 2i+1 < limit has a cell, and
\* cell i is 1 if and only if 2i+1 is prime.
C1_SieveCorrect ==
    Finished =>
        \A i \in 0..Size :
            (2 * i + 1 < Size) =>
                /\ i \in DOMAIN Bits
                /\ (Bits[i] = 1) <=> TrialDivision(2 * i + 1)

\* C1 witness: a finished run of at least two workers over a limit above 49,
\* in which the cells of 25 and 49 were struck and the cell of 47 was not.
C1_Witness ==
    /\ Finished
    /\ Size >= 50
    /\ Threads >= 2
    /\ Bits[12] = 0
    /\ Bits[24] = 0
    /\ Bits[23] = 1

\* C2: for a fixed limit, a finished run and the finished run before it,
\* whatever their worker counts (1, 2, 4 or 8) and interleavings, end with the
\* same cells and the same countPrimes().
C2_Deterministic ==
    (Finished /\ prev # NoRun) =>
        /\ Bits = prev.bits
        /\ countPrimes(Bits, Size) = prev.count

\* C2 witness: a finished run with 2 workers that follows a finished run with
\* 8 workers over the limit 50, in which both struck the cell of 45.
C2_Witness ==
    /\ Finished
    /\ Size = 50
    /\ Threads = 2
    /\ prev.t = 8
    /\ prev.bits[22] = 0
    /\ Bits[22] = 0

\* C3: no step of a run changes the number of cells or turns a cell that is 0
\* back to 1: a cell is unchanged or goes from 1 to 0.  (The steps that are
\* excluded build a new sieve.)
C3_Monotone ==
    [][(mpc \in {"spawn", "join"}) =>
          /\ DOMAIN Bits' = DOMAIN Bits
          /\ \A c \in DOMAIN Bits : Bits[c] = 0 => Bits'[c] = 0]_vars

\* C3 witness: worker 0, striking multiples of 3, and another worker,
\* striking multiples of 5, have both written the cell of 45.
C3_Witness ==
    \E w1, w2 \in 1..Len(threadPool) :
        /\ threadPool[w1].pc = "mark3"
        /\ threadPool[w1].num > 45
        /\ threadPool[w2].pc = "markA"
        /\ threadPool[w2].factor = 5
        /\ threadPool[w2].num > 45
        /\ Bits[22] = 0

\* C4: for every limit that is a key of the known-counts table, countPrimes()
\* of the finished sieve is the count stored for it, for any worker count.
C4_KnownCounts ==
    (Finished /\ Size \in DOMAIN resultsDictionary) =>
        countPrimes(Bits, Size) = resultsDictionary[Size]

\* C4 witness: a finished run over the limit 1000 with two workers that
\* counts 168 primes.
C4_Witness ==
    /\ Finished
    /\ Size = 1000
    /\ Threads = 2
    /\ countPrimes(Bits, Size) = 168

\* C5 (as claimed): the answer of isPrime(n) on the finished sieve is the
\* answer of trial division, for every n in [0, limit).
C5_IsPrimeAgrees ==
    (mpc = "checked" /\ query # NoQuery) =>
        (query.ans <=> TrialDivision(query.n))

\* C6 (as claimed): a sieve with limit 1 is built and run and reports no
\* prime; with limit 2 it reports exactly the prime 2; with limit 3 it
\* reports the primes 2 and 3.
C6_Boundary ==
    /\ (Size = 1) => mpc # "crashed"
    /\ (Finished /\ Size = 1) =>
          (PrimesFound = {} /\ countPrimes(Bits, Size) = 0)
    /\ (Finished /\ Size = 2) =>
          (PrimesFound = {2} /\ countPrimes(Bits, Size) = 1)
    /\ (Finished /\ Size = 3) =>
          (PrimesFound = {2, 3} /\ countPrimes(Bits, Size) = 2)

\* C7: validateResults() is false when the limit is no key of the table,
\* whatever the count, and when the limit is a key it is true exactly when
\* countPrimes() is the stored count; the caller's result is 0 for a limit
\* that is no key and 168 for the limit 1000.  The sieves looked at are those
\* of every state, finished or not (so with counts right and wrong), for the
\* limits up to 100, and the finished ones for the limit 1000.
C7_Validate ==
    /\ (Size >= 1 /\ (Size <= 100 \/ Finished)) =>
          IF Size \in DOMAIN resultsDictionary
            THEN validateResults(Bits, Size)
                    <=> (countPrimes(Bits, Size) = resultsDictionary[Size])
            ELSE ~validateResults(Bits, Size)
    /\ (mpc = "checked" /\ Size \notin DOMAIN resultsDictionary) => result = 0
    /\ (mpc = "checked" /\ Size = 1000) => result = 168

\* C7 witness: the sieve with limit 11 has finished with the right count, 4,
\* and the caller's validation has rejected it.
C7_Witness ==
    /\ mpc = "checked"
    /\ Size = 11
    /\ countPrimes(Bits, Size) = 4
    /\ result = 0

\* C8: when runSieve() joins, the pool holds exactly Threads threads and the
\* k-th of them was started with index k-1 (each index 0..Threads-1 once);
\* runSieve() has returned only when every thread is done; and the caller has
\* read the sieve (the result, an isPrime answer) only when every thread is
\* done.
C8_JoinBarrier ==
    /\ (mpc \in {"join", "returned", "checked"}) =>
          /\ Len(threadPool) = Threads
          /\ \A k \in 1..Len(threadPool) : threadPool[k].start = k - 1
    /\ Finished => AllDone
    /\ (result # -1 \/ query # NoQuery) => (Finished /\ AllDone)

\* C8 witness: runSieve() has returned from a run of four workers, of which
\* the one started with index 1 went through a round, and the caller has read
\* the sieve.
C8_Witness ==
    /\ mpc = "checked"
    /\ Threads = 4
    /\ Len(threadPool) = 4
    /\ threadPool[2].index = 5
    /\ query # NoQuery

\* C9: under fair scheduling a started run completes: from the moment
\* runSieve() starts spawning, it eventually returns; a worker that is done
\* has a factor above floor(sqrt(limit)); and once all workers of a
\* returned run are done they stay done until a new sieve is built.
C9_Terminates ==
    /\ (mpc = "spawn") ~> (mpc = "returned")
    /\ [](\A w \in 1..Len(threadPool) :
             threadPool[w].pc = "done" => threadPool[w].factor > ISqrt(Size))
    /\ [][(Finished /\ mpc' \in {"returned", "checked"}) =>
             (AllDone /\ AllDone' /\ threadPool' = threadPool /\ Bits' = Bits)]_vars

\* C9 witness: a run of three workers over a limit of at least 49 has
\* returned after the worker started with index 1 went through a round.
C9_Witness ==
    /\ mpc = "returned"
    /\ Size >= 49
    /\ Threads = 3
    /\ threadPool[2].index = 4
    /\ AllDone

\* C10 (as claimed): the constructor leaves a Bit Store of exactly
\* ceil(limit/2) cells, with cell 0 at 0 and every other cell at 1.
C10_Constructed ==
    (mpc = "spawn" /\ threadPool = << >>) =>
        /\ DOMAIN Bits = 0..(CeilHalf(Size) - 1)
        /\ Bits[0] = 0
        /\ \A c \in DOMAIN Bits : c >= 1 => Bits[c] = 1

\* C11: in every state of a sieve, countPrimes() is the number of cells of
\* index >= 1 that hold 1, plus 1 when the limit is at least 2; its value does
\* not depend on what cell 0 holds; and the step of the caller that calls it
\* leaves the Bit Store as it was.
C11_CountPrimes ==
    /\ [](Size >= 1 =>
            /\ countPrimes(Bits, Size)
                 = Cardinality({c \in (DOMAIN Bits) \ {0} : Bits[c] = 1})
                     + (IF Size >= 2 THEN 1 ELSE 0)
            /\ 0 \in DOMAIN Bits =>
                 countPrimes([Bits EXCEPT ![0] = 1], Size)
                     = countPrimes(Bits, Size))
    /\ [][(mpc = "returned" /\ mpc' = "checked") =>
            /\ Bits' = Bits
            /\ result' \in {0, countPrimes(Bits, Size)}]_vars

\* C11 witness: countPrimes() was called on the finished sieve of limit 10 and
\* gave 4: the number 2 and the cells of 3, 5 and 7, cell 0 left out.
C11_Witness ==
    /\ mpc = "checked"
    /\ Size = 10
    /\ result = 4
    /\ Bits[0] = 0
    /\ Bits[4] = 0

\* C12 (as claimed): for every command line, the limit and the worker count
\* main is about to build a sieve with, and those of every sieve it has
\* built, are at least 1.
C12_Clamped ==
    /\ (stage \in {"bench", "check"} /\ mpc = "new") =>
          (llUpperLimit >= 1 /\ SieveThreads >= 1)
    /\ (stage \in {"bench", "check"}
           /\ mpc \in {"spawn", "join", "returned", "loop", "checked", "printed"}) =>
          (Size >= 1 /\ Threads >= 1)

\* ------------------------------------------------------------------- C13
\* The odd multiples of 3 from 9 below size: 9, 15, 21, ...
OddMultiplesOf3(size) == {n \in 9..(size - 1) : n % 6 = 3}

\* C13 as stated: the worker started with index 0 marks the multiples of 3
\* on each round it executes, i.e. whenever that worker passes the loop test
\* and enters a round, the round is the one that marks the multiples of 3.
C13_EveryRound ==
    [][\A w \in 1..Len(threadPool) :
          (/\ w <= Len(threadPool')
           /\ threadPool[w].start = 0
           /\ threadPool[w].pc = "while"
           /\ threadPool'[w].pc \notin {"while", "done"})
             => threadPool'[w].pc = "mark3"]_vars

\* C13, amended: the worker started with index 0 marks the multiples of 3
\* in its first round only (the round in which its index is still 0): a
\* round is the marking of 9, 15, 21, ... exactly when the worker's index is
\* 0, the marking walks those numbers in steps of 6, and when that round
\* ends every one of them below the limit is marked composite and the index
\* has grown by the worker count.
C13_FirstRound ==
    /\ [](\A w \in 1..Len(threadPool) :
            threadPool[w].pc = "mark3" =>
              /\ threadPool[w].start = 0
              /\ threadPool[w].index = 0
              /\ threadPool[w].num >= 9
              /\ threadPool[w].num % 6 = 3
              /\ \A n \in OddMultiplesOf3(Size) :
                    n < threadPool[w].num => Bits[Shr1(n)] = 0)
    /\ [][\A w \in 1..Len(threadPool) :
            w <= Len(threadPool') =>
              /\ (threadPool[w].pc = "while"
                    /\ threadPool'[w].pc \notin {"while", "done"})
                  => (threadPool'[w].pc = "mark3" <=> threadPool[w].index = 0)
              /\ (threadPool[w].pc = "mark3" /\ threadPool'[w].pc # "mark3")
                  => /\ \A n \in OddMultiplesOf3(Size) : Bits'[Shr1(n)] = 0
                     /\ threadPool'[w].pc = "while"
                     /\ threadPool'[w].index = threadPool[w].index + Threads
                     /\ threadPool'[w].factor
                          = 6 * threadPool'[w].index - 1]_vars

\* The worker started with index 0 is in its second round (index = Threads,
\* marking the multiples of its factor on the ordinary path), after its first
\* round marked 9, 15 and 27.
C13_Witness ==
    /\ Len(threadPool) >= 1
    /\ threadPool[1].start = 0
    /\ threadPool[1].index = Threads
    /\ threadPool[1].pc = "markA"
    /\ Size >= 28
    /\ Bits[4] = 0 /\ Bits[7] = 0 /\ Bits[13] = 0

\* ------------------------------------------------------------------- C14
\* C14: the worker started with index i (i in 0..Threads-1) begins with the
\* factor 6i - 1; its index only ever changes at the end of a round, by
\* exactly Threads, and its factor is then 6 * index - 1; so its index is
\* always i plus a multiple of Threads, it is inside a round only while
\* 6 * index - 1 <= floor(sqrt(Size)), and it has left the loop only when
\* 6 * index - 1 > floor(sqrt(Size)).
C14_WheelIndices ==
    /\ [](\A w \in 1..Len(threadPool) :
            LET th == threadPool[w] IN
            /\ th.start = w - 1
            /\ th.start \in 0..(Threads - 1)
            /\ th.index >= th.start
            /\ (th.index - th.start) % Threads = 0
            /\ th.pc \in {"while", "mark3", "readA", "markA", "done"}
                  => th.factor = 6 * th.index - 1
            /\ th.pc \in {"readB", "markB"} => th.factor = 6 * th.index + 1
            /\ th.pc \notin {"while", "done"}
                  => 6 * th.index - 1 <= ISqrt(Size)
            /\ th.pc = "done" => 6 * th.index - 1 > ISqrt(Size))
    /\ [][/\ Len(threadPool') = Len(threadPool) + 1 =>
               LET th == threadPool'[Len(threadPool')] IN
               /\ th.index = Len(threadPool)
               /\ th.factor = 6 * th.index - 1
               /\ th.pc = "while"
          /\ \A w \in 1..Len(threadPool) :
               (w <= Len(threadPool')
                  /\ threadPool'[w].index # threadPool[w].index) =>
                 /\ threadPool[w].pc \in {"mark3", "readB", "markB"}
                 /\ threadPool'[w].pc = "while"
                 /\ threadPool'[w].index = threadPool[w].index + Threads
                 /\ threadPool'[w].factor = 6 * threadPool'[w].index - 1
          /\ \A w \in 1..Len(threadPool) :
               (w <= Len(threadPool') /\ threadPool[w].pc = "while"
                  /\ threadPool'[w].pc # "while") =>
                 (threadPool'[w].pc = "done"
                    <=> 6 * threadPool[w].index - 1 > ISqrt(Size))]_vars

\* Of two workers, the one started with index 1 is in its third round:
\* index 5 = 1 + 2 * 2, factor 29 <= 31 = floor(sqrt(1000)).
C14_Witness ==
    /\ Threads = 2
    /\ Size = 1000
    /\ Len(threadPool) = 2
    /\ threadPool[2].start = 1
    /\ threadPool[2].index = 5
    /\ threadPool[2].factor = 29
    /\ threadPool[2].pc = "markA"

\* ------------------------------------------------------------------- C15
\* The numbers f*f, f*f + 2f, f*f + 4f, ... below size.
MarkTargets(f, size) ==
    {f * f + 2 * f * k : k \in 0..((size - 1 - f * f) \div (2 * f))}

\* C15: for a factor f of a round (6 * index - 1, then 6 * index + 1): the
\* read of the cell of f changes no cell; when it returns true the worker
\* walks num = f*f, f*f + 2f, ..., each step setting the one cell of num to
\* false and nothing else, and when the walk ends every one of those numbers
\* below Size is marked; when it returns false the worker goes on to the
\* next factor without a step that changes a cell.
C15_MarkingFrame ==
    /\ [](\A w \in 1..Len(threadPool) :
            LET th == threadPool[w] IN
            th.pc \in {"markA", "markB"} =>
              /\ th.num >= th.factor * th.factor
              /\ (th.num - th.factor * th.factor) % (2 * th.factor) = 0
              /\ \A n \in MarkTargets(th.factor, Size) :
                    n < th.num => Bits[Shr1(n)] = 0)
    /\ [][\A w \in 1..Len(threadPool) :
            (w <= Len(threadPool') /\ threadPool'[w] # threadPool[w]) =>
              LET th == threadPool[w]
                  nx == threadPool'[w]
              IN
              /\ th.pc \in {"readA", "readB"} =>
                    /\ Bits' = Bits
                    /\ \/ /\ nx.pc = (IF th.pc = "readA" THEN "markA"
                                                         ELSE "markB")
                          /\ nx.factor = th.factor
                          /\ nx.num = th.factor * th.factor
                       \/ /\ nx.pc \in {"readB", "while"}
                          /\ nx.factor # th.factor
              /\ (th.pc \in {"markA", "markB"} /\ th.num < Size) =>
                    /\ Bits' = [Bits EXCEPT ![Shr1(th.num)] = 0]
                    /\ nx = [th EXCEPT !.num = th.num + 2 * th.factor]
              /\ (th.pc \in {"markA", "markB"} /\ th.num >= Size) =>
                    /\ Bits' = Bits
                    /\ nx.pc \in {"readB", "while"}
                    /\ nx.factor # th.factor
                    /\ \A n \in MarkTargets(th.factor, Size) :
                          Bits[Shr1(n)] = 0]_vars

\* A single worker has marked the multiples of 5 and 7 (25 and 49 are
\* marked) and stands at the read of the cell of 25, which now holds false.
C15_Witness ==
    /\ Size = 1000
    /\ Len(threadPool) = 1
    /\ threadPool[1].pc = "readB"
    /\ threadPool[1].factor = 25
    /\ Bits[Shr1(25)] = 0
    /\ Bits[Shr1(49)] = 0

\* ------------------------------------------------------------------- C16
\* The cells of the odd primes, up to the largest limit of any run.
OddPrimeCells ==
    LET limits == TableLimits \cup WideLimits \cup {MaxLimit}
        top == CHOOSE x \in limits : \A y \in limits : y <= x
    IN {c \in 1..Shr1(top) : TrialDivision(2 * c + 1)}

\* C16: whatever the interleaving and whatever value a racing read returns,
\* no cell of a prime number holds false; every write a worker is about to
\* make goes to the cell of an odd composite number; and every step of a run
\* that changes the cells is such a write, setting that one cell to false.
C16_NoPrimeCleared ==
    /\ [](/\ \A c \in OddPrimeCells : c \in DOMAIN Bits => Bits[c] = 1
          /\ \A w \in 1..Len(threadPool) :
                (threadPool[w].pc \in {"mark3", "markA", "markB"}
                   /\ threadPool[w].num < Size)
                  => /\ ~TrialDivision(threadPool[w].num)
                     /\ threadPool[w].num % 2 = 1
                     /\ Shr1(threadPool[w].num) \notin OddPrimeCells)
    /\ [][(Bits' # Bits /\ mpc' = mpc) =>
            \E w \in 1..Len(threadPool) :
               /\ threadPool[w].pc \in {"mark3", "markA", "markB"}
               /\ ~TrialDivision(threadPool[w].num)
               /\ Bits' = [Bits EXCEPT ![Shr1(threadPool[w].num)] = 0]]_vars

\* Of two workers, the one started with index 0 read true for the composite
\* factor 25 although its cell holds false (25 was marked by the other
\* worker), and is marking the multiples of 25 from 625 on.
C16_Witness ==
    /\ Size = 1000
    /\ Threads = 2
    /\ Len(threadPool) = 2
    /\ threadPool[1].pc = "markB"
    /\ threadPool[1].factor = 25
    /\ threadPool[1].num > 625
    /\ Bits[Shr1(25)] = 0
    /\ Bits[Shr1(625)] = 0

\* ------------------------------------------------------------------- C17
\* The wheel indices worker w has processed so far: its start index and
\* every Threads-th index after it, below the index it stands at now.
RoundsDone(w) ==
    {k \in threadPool[w].start..(threadPool[w].index - 1) :
        (k - threadPool[w].start) % Threads = 0}

\* C17: when a run with at least one worker has finished, every wheel index
\* k with 6k - 1 <= floor(sqrt(Size)) was processed by exactly one worker,
\* the one started with index k mod Threads, and every prime p with
\* 5 <= p <= floor(sqrt(Size)) has p*p, p*p + 2p, ... below Size marked;
\* during the run a worker enters a round only for an index that belongs to
\* no other worker and that it has not processed before.
C17_ExactlyOnce ==
    /\ []((Finished /\ Threads >= 1) =>
            /\ Len(threadPool) = Threads
            /\ \A k \in 0..ISqrt(Size) :
                  6 * k - 1 <= ISqrt(Size) =>
                    /\ Cardinality({w \in 1..Threads : k \in RoundsDone(w)}) = 1
                    /\ \A w \in 1..Threads :
                          k \in RoundsDone(w)
                            => threadPool[w].start = k % Threads
            /\ \A p \in 5..ISqrt(Size) :
                  TrialDivision(p) =>
                    \A n \in MarkTargets(p, Size) : Bits[Shr1(n)] = 0)
    /\ [][\A w \in 1..Len(threadPool) :
            (w <= Len(threadPool') /\ threadPool[w].pc = "while"
               /\ threadPool'[w].pc \in {"mark3", "readA"}) =>
              /\ threadPool'[w].index = threadPool[w].index
              /\ threadPool[w].index \notin RoundsDone(w)
              /\ threadPool[w].index % Threads = threadPool[w].start
              /\ \A v \in 1..Len(threadPool) :
                    v # w =>
                      threadPool[v].start # threadPool[w].index % Threads]_vars

\* A finished run of two workers to 1000: indices 0, 2, 4 were processed by
\* the worker started with 0 (now at 6) and 1, 3, 5 by the other (now at 7).
C17_Witness ==
    /\ Finished
    /\ Size = 1000
    /\ Threads = 2
    /\ threadPool[1].index = 6
    /\ threadPool[2].index = 7
    /\ RoundsDone(1) = {0, 2, 4}
    /\ RoundsDone(2) = {1, 3, 5}

\* ------------------------------------------------------------------- C18
\* The cell accesses the workers are about to make (the read of the cell of
\* the factor at hand, the write to the cell of num) are inside the Bit Store.
WorkerAccessesInRange ==
    \A w \in 1..Len(threadPool) :
       /\ threadPool[w].pc \in {"readA", "readB"}
             => Shr1(threadPool[w].factor) \in DOMAIN Bits
       /\ (threadPool[w].pc \in {"mark3", "markA", "markB"}
             /\ threadPool[w].num < Size)
             => Shr1(threadPool[w].num) \in DOMAIN Bits

\* C18 (as claimed): for every limit >= 1 and every worker count >= 1, the
\* constructor's write to cell 0 and every read and write of a worker go to
\* a cell index smaller than the number of cells.
C18_AccessesInRange ==
    (Size >= 1 /\ Threads >= 1) => (~oob /\ WorkerAccessesInRange)

\* ------------------------------------------------------------------- C19
\* C19: cPasses changes only in main's step after runSieve() has returned in
\* the benchmark loop, by exactly one, when every thread of that run has
\* left its loop and has been joined; that step is the only one main takes
\* from there, so each completed run of the loop is counted once; no step
\* taken while a thread is still running touches cPasses; and once a run has
\* been counted, and so when the loop has been left, cPasses is at least 1.
C19_PassCounter ==
    /\ [](/\ cPasses >= 0
          /\ mpc = "args" => cPasses = 0
          /\ (mpc = "loop" \/ stage = "check") => cPasses >= 1)
    /\ [][/\ cPasses' # cPasses =>
               /\ cPasses' = cPasses + 1
               /\ stage = "bench" /\ mpc = "returned" /\ mpc' = "loop"
               /\ AllDone
               /\ joined = Len(threadPool)
               /\ Len(threadPool) = Threads
               /\ UNCHANGED <<Bits, threadPool>>
          /\ (stage = "bench" /\ mpc = "returned") => cPasses' = cPasses + 1
          /\ (stage = "bench" /\ mpc' = "returned") => mpc = "join"
          /\ ~AllDone => cPasses' = cPasses]_vars

\* The loop has counted its second run, a run of two workers to 10.
C19_Witness ==
    /\ stage = "bench"
    /\ mpc = "loop"
    /\ cPasses = 2
    /\ Size = 10
    /\ Threads = 2
    /\ Len(threadPool) = 2
    /\ joined = 2
    /\ AllDone

\* ------------------------------------------------------------------- C20
\* C20 (as claimed): for a finished sieve, the count printResults() computes
\* in its own loop equals countPrimes(), and that loop reads only cells
\* whose index is smaller than the number of cells.
C20_PrintCount ==
    (mpc = "printed" /\ printCount # -1) =>
        /\ printCount = countPrimes(Bits, Size)
        /\ \A num \in PrintReadCells(Bits) : num < Cardinality(DOMAIN Bits)

====
